---- MODULE Spec2Model ----
(***************************************************************************)
(* Model of the RosterApp shift lifecycle (manual shift creation, clock    *)
(* in, clock out, update, delete), of the shift swap workflow, of clock_in *)
(* run by two requests at once, and of the scheduling strategies, called   *)
(* on their own and by the auto-populate loop.                             *)
(*                                                                         *)
(* The state is the Shift table and the ShiftSwapRequest table, with the   *)
(* calls that are under way (calls, run, scoring, responses), and, for the *)
(* comparison of two strategies, two copies of a store (pair).  A value    *)
(* that is None in the program is 0 here; every real id and timestamp is   *)
(* >= 1, so Python's truth test `if x:` is  x # 0.                         *)
(*                                                                         *)
(* Every handler is one action.  What a call returns or raises is given by *)
(* an operator <handler>_result over the state the call starts in and its  *)
(* arguments: the handler's checks, in the order the code makes them.  A   *)
(* call whose result is not "ok" writes nothing: its step leaves every     *)
(* variable unchanged.                                                     *)
(***************************************************************************)
EXTENDS Integers, FiniteSets, Sequences, TLC

\* ---------------------------------------------------------------- bounds
MaxShifts == 2      \* Shift rows ever created
MaxRequests == 2    \* ShiftSwapRequest rows ever created (SpecSwap)
MaxSwaps == 1       \* ShiftSwapRequest rows ever created (Spec)
MaxNow == 2         \* the clock's last reading
MaxTime == 2        \* the latest start or end time of a shift
NumStaff == 3       \* staff users
NumCalls == 2       \* clock_in calls in flight at once (SpecRace)
MaxDays == 6        \* the largest num_days of an auto-populate run (SpecAuto)
MaxManual == 1      \* shifts scheduled by hand beside the run (SpecAuto)
MaxCount == 1       \* the largest shift count of a stats entry (SpecScore)
MaxPre == 2         \* shifts in the store before the two runs compared (SpecPair)
MaxRunDays == 3     \* the longest of the runs compared (SpecPair)
MaxDate == 1        \* the latest calendar date of a stats entry (SpecScore)

\* ----------------------------------------------------------------- users
\* initialize(): user 1 is the admin, the users created after it are staff
AdminIds == {1}
StaffIds == 2..(NumStaff + 1)
UserIds == AdminIds \cup StaffIds
\* ids a caller may send: the users, and one id that resolves to no user
InputIds == 1..(NumStaff + 2)

\* get_user(id).role; "none" when get_user returns None
role(id) == IF id \in AdminIds THEN "admin"
            ELSE IF id \in StaffIds THEN "staff" ELSE "none"

\* the Schedule rows (create_schedule made them; none is ever deleted); the
\* other id a caller may send names no schedule
Schedules == {1}
InputScheduleIds == {1, 2}

Times == 1..MaxTime
\* shifts end at the end of the modelled day
EndTimes == {MaxTime}
ShiftIdInputs == 1..(MaxShifts + 1)
StaffActions == {"accept", "decline", "other"}
AdminActions == {"approve", "deny", "other"}

VARIABLES
  shifts,       \* the Shift table: id -> row
  nextShiftId,  \* the primary key the next Shift row gets
  requests,     \* the ShiftSwapRequest table: id -> row
  now,          \* the last value datetime.now() returned
  calls,        \* the clock_in calls in flight: caller -> its session's state
  run,          \* the auto-populate run: its arguments, position and result
  scoring,      \* the score_staff call: its strategy, arguments and result
  responses,    \* the respond_to_swap_request calls in flight, by caller
  pair          \* two auto-populate runs from one store, side by side

vars == <<shifts, nextShiftId, requests, now, calls, run, scoring, responses, pair>>

\* Shift(staff_id, schedule_id, start_time, end_time): clock fields default None
Shift(staff_id, schedule_id, start_time, end_time) ==
  [staff_id |-> staff_id, schedule_id |-> schedule_id,
   start_time |-> start_time, end_time |-> end_time,
   clock_in |-> 0, clock_out |-> 0]

\* ShiftSwapRequest(requesting_staff_id, requested_staff_id, shift_id, status)
ShiftSwapRequest(requesting_staff_id, requested_staff_id, shift_id, status) ==
  [requesting_staff_id |-> requesting_staff_id,
   requested_staff_id |-> requested_staff_id,
   shift_id |-> shift_id, status |-> status]

\* db.session.add(row); db.session.commit() on a table keyed by id
Insert(table, id, row) ==
  [i \in DOMAIN table \cup {id} |-> IF i = id THEN row ELSE table[i]]

\* db.session.delete(row); db.session.commit()
Remove(table, id) == [i \in DOMAIN table \ {id} |-> table[i]]

\* the primary key the next ShiftSwapRequest row gets (rows are never deleted)
nextRequestId == Cardinality(DOMAIN requests) + 1

\* what datetime.now() can return next: the clock never runs backwards
ClockReadings == {t \in now..(now + 1) : t <= MaxNow}
\* the same, for calls that all fall within one reading of the clock
SameReading == {now}

\* the clients that may have a clock_in call in flight
Callers == 1..NumCalls

\* a client with no call made yet
NoCall == [pc |-> "idle", staff_id |-> 0, shift_id |-> 0,
           found |-> FALSE, owner |-> 0, clock_in |-> 0, result |-> ""]

\* no auto-populate call made yet
NoRun == [pc |-> "idle", schedule_id |-> 0, strategy_type |-> "",
          eligible_staff_ids |-> << >>, num_days |-> 0, base_date |-> 0,
          day |-> 0, stats |-> << >>, shifts |-> << >>, status |-> 0,
          error |-> << >>]

\* no score_staff call made yet
NoScoring == [pc |-> "idle", strategy_type |-> "", eligible_staff_ids |-> << >>,
              stats |-> << >>, target_day |-> 0, is_day |-> FALSE, best |-> 0,
              start_time |-> 0, day_shift_hours |-> <<6, 18>>]

\* no respond_to_swap_request call made yet
NoResponse == [pc |-> "idle", staff_id |-> 0, request_id |-> 0, action |-> "",
               found |-> FALSE, requested_staff_id |-> 0, status |-> "",
               result |-> ""]

\* no pair of runs under way
NoPair == [pc |-> "idle", eligible_staff_ids |-> << >>, num_days |-> 0,
           base_date |-> 0, day |-> 0, even |-> << >>, min_days |-> << >>,
           status |-> 0]

Init ==
  /\ shifts = << >>
  /\ nextShiftId = 1
  /\ requests = << >>
  /\ now = 1
  /\ calls = [p \in Callers |-> NoCall]
  /\ run = NoRun
  /\ scoring = NoScoring
  /\ responses = [p \in Callers |-> NoResponse]
  /\ pair = NoPair

\* ------------------------------------------------------- shift creation
\* a schedule_shift that looks the schedule up before the staff member
schedule_shift_result_schedule_first(staff_id, schedule_id) ==
  IF schedule_id \notin Schedules THEN "ValueError"
  ELSE IF role(staff_id) # "staff" THEN "PermissionError"
  ELSE "ok"

\* controllers/admin.py schedule_shift: the checks (admin_id is never read)
schedule_shift_result(staff_id, schedule_id) ==
  IF role(staff_id) # "staff" THEN "PermissionError"
  ELSE IF schedule_id \notin Schedules THEN "ValueError"
  ELSE "ok"

\* controllers/admin.py schedule_shift
schedule_shift(staff_id, schedule_id, start_time, end_time) ==
  IF schedule_shift_result(staff_id, schedule_id) # "ok"
    THEN UNCHANGED vars
    ELSE /\ shifts' = Insert(shifts, nextShiftId,
                             Shift(staff_id, schedule_id, start_time, end_time))
         /\ nextShiftId' = nextShiftId + 1
         /\ UNCHANGED <<requests, now, calls, run, scoring, responses, pair>>

\* views/index.py create_shift (admin web form), every field filled in: the
\* end/start check
create_shift_result(start_time, end_time) ==
  IF end_time <= start_time THEN "error" ELSE "ok"

\* views/index.py create_shift: no staff lookup, no schedule
create_shift(staff_id, start_time, end_time) ==
  IF create_shift_result(start_time, end_time) # "ok"
    THEN UNCHANGED vars
    ELSE /\ shifts' = Insert(shifts, nextShiftId,
                             Shift(staff_id, 0, start_time, end_time))
         /\ nextShiftId' = nextShiftId + 1
         /\ UNCHANGED <<requests, now, calls, run, scoring, responses, pair>>

\* ------------------------------------------------------------ clocking
\* a clock_in that takes a shift it cannot find for one the caller does not own
clock_in_result_not_owned(staff_id, shift_id) ==
  IF shift_id \notin DOMAIN shifts THEN "PermissionError"
  ELSE IF shifts[shift_id].staff_id # staff_id THEN "PermissionError"
  ELSE IF shifts[shift_id].clock_in # 0 THEN "ValueError"
  ELSE "ok"

\* a clock_in that lets the owner clock in again
clock_in_result_again(staff_id, shift_id) ==
  IF shift_id \notin DOMAIN shifts THEN "ValueError"
  ELSE IF shifts[shift_id].staff_id # staff_id THEN "PermissionError"
  ELSE "ok"

\* controllers/staff.py clock_in: the checks
clock_in_result(staff_id, shift_id) ==
  IF shift_id \notin DOMAIN shifts THEN "ValueError"
  ELSE IF shifts[shift_id].staff_id # staff_id THEN "PermissionError"
  ELSE IF shifts[shift_id].clock_in # 0 THEN "ValueError"
  ELSE "ok"

\* a clock_in that starts the shift afresh and clears its clock-out
clock_in_clears_clock_out(staff_id, shift_id, t) ==
  IF clock_in_result(staff_id, shift_id) # "ok"
    THEN UNCHANGED vars
    ELSE /\ shifts' = [shifts EXCEPT ![shift_id].clock_in = t,
                                     ![shift_id].clock_out = 0]
         /\ now' = t
         /\ UNCHANGED <<nextShiftId, requests, calls, run, scoring, responses, pair>>

\* controllers/staff.py clock_in; t is what datetime.now() returns
clock_in(staff_id, shift_id, t) ==
  IF clock_in_result(staff_id, shift_id) # "ok"
    THEN UNCHANGED vars
    ELSE /\ shifts' = [shifts EXCEPT ![shift_id].clock_in = t]
         /\ now' = t
         /\ UNCHANGED <<nextShiftId, requests, calls, run, scoring, responses, pair>>

\* a clock_out that refuses a shift that was never clocked in
clock_out_result_after_clock_in(staff_id, shift_id) ==
  IF shift_id \notin DOMAIN shifts THEN "ValueError"
  ELSE IF shifts[shift_id].staff_id # staff_id THEN "PermissionError"
  ELSE IF shifts[shift_id].clock_in = 0 THEN "ValueError"
  ELSE IF shifts[shift_id].clock_out # 0 THEN "ValueError"
  ELSE "ok"

\* a clock_out that never compares the caller with the shift's owner
clock_out_result_any_caller(staff_id, shift_id) ==
  IF shift_id \notin DOMAIN shifts THEN "ValueError"
  ELSE IF shifts[shift_id].clock_out # 0 THEN "ValueError"
  ELSE "ok"

\* controllers/staff.py clock_out: the checks
clock_out_result(staff_id, shift_id) ==
  IF shift_id \notin DOMAIN shifts THEN "ValueError"
  ELSE IF shifts[shift_id].staff_id # staff_id THEN "PermissionError"
  ELSE IF shifts[shift_id].clock_out # 0 THEN "ValueError"
  ELSE "ok"

\* controllers/staff.py clock_out; t is what datetime.now() returns
clock_out(staff_id, shift_id, t) ==
  IF clock_out_result(staff_id, shift_id) # "ok"
    THEN UNCHANGED vars
    ELSE /\ shifts' = [shifts EXCEPT ![shift_id].clock_out = t]
         /\ now' = t
         /\ UNCHANGED <<nextShiftId, requests, calls, run, scoring, responses, pair>>

\* ------------------------------------------------- update and delete
\* ShiftController.update_shift: the validation, in the documented order;
\* an argument that is not given is 0
update_shift_result(shift_id, start_time, end_time) ==
  IF shift_id \notin DOMAIN shifts THEN "404"
  ELSE IF start_time # 0 /\ end_time # 0 /\ ~(start_time < end_time) THEN "400"
  ELSE IF shifts[shift_id].clock_in # 0 \/ shifts[shift_id].clock_out # 0 THEN "400"
  ELSE "ok"

\* an update_shift that assigns both times, given or not
update_shift_overwrites(shift_id, start_time, end_time) ==
  IF update_shift_result(shift_id, start_time, end_time) # "ok"
    THEN UNCHANGED vars
    ELSE /\ shifts' = [shifts EXCEPT ![shift_id].start_time = start_time,
                                     ![shift_id].end_time = end_time]
         /\ UNCHANGED <<nextShiftId, requests, now, calls, run, scoring, responses, pair>>

\* ShiftController.update_shift
update_shift(shift_id, start_time, end_time) ==
  IF update_shift_result(shift_id, start_time, end_time) # "ok"
    THEN UNCHANGED vars
    ELSE /\ shifts' = [shifts EXCEPT
                ![shift_id].start_time = IF start_time # 0 THEN start_time ELSE @,
                ![shift_id].end_time = IF end_time # 0 THEN end_time ELSE @]
         /\ UNCHANGED <<nextShiftId, requests, now, calls, run, scoring, responses, pair>>

\* a delete_shift that never looks at the clock fields
delete_shift_result_unguarded(shift_id) ==
  IF shift_id \notin DOMAIN shifts THEN "404" ELSE "ok"

\* ShiftController.delete_shift: the validation
delete_shift_result(shift_id) ==
  IF shift_id \notin DOMAIN shifts THEN "404"
  ELSE IF shifts[shift_id].clock_in # 0 \/ shifts[shift_id].clock_out # 0 THEN "400"
  ELSE "ok"

\* ShiftController.delete_shift
delete_shift(shift_id) ==
  IF delete_shift_result(shift_id) # "ok"
    THEN UNCHANGED vars
    ELSE /\ shifts' = Remove(shifts, shift_id)
         /\ UNCHANGED <<nextShiftId, requests, now, calls, run, scoring, responses, pair>>

\* -------------------------------------------------------- swap workflow
\* a create_swap_request that never compares the caller with the shift's owner
create_swap_request_result_any_owner(staff_id, shift_id, requested_staff_id) ==
  IF shift_id = 0 \/ requested_staff_id = 0 THEN "400"
  ELSE IF shift_id \notin DOMAIN shifts THEN "400"
  ELSE "ok"

\* views/staffView.py create_swap_request: the checks; staff_id is
\* session['user_id'], a field missing from the body is 0
create_swap_request_result(staff_id, shift_id, requested_staff_id) ==
  IF shift_id = 0 \/ requested_staff_id = 0 THEN "400"
  ELSE IF shift_id \notin DOMAIN shifts THEN "400"
  ELSE IF shifts[shift_id].staff_id # staff_id THEN "400"
  ELSE "ok"

\* views/staffView.py create_swap_request
create_swap_request(staff_id, shift_id, requested_staff_id) ==
  IF create_swap_request_result(staff_id, shift_id, requested_staff_id) # "ok"
    THEN UNCHANGED vars
    ELSE /\ requests' = Insert(requests, nextRequestId,
                ShiftSwapRequest(staff_id, requested_staff_id, shift_id, "pending"))
         /\ UNCHANGED <<shifts, nextShiftId, now, calls, run, scoring, responses, pair>>

\* an accept that marks the request approved and leaves the shift's owner
Accept_status_only(request_id) ==
  /\ requests' = [requests EXCEPT ![request_id].status = "approved"]
  /\ UNCHANGED shifts

\* the accept branch of both staff paths: shift = Shift.query.get(shift_id);
\* if shift: shift.staff_id = requested_staff_id; status = 'approved'; commit
Accept(request_id) ==
  LET r == requests[request_id] IN
  /\ shifts' = IF r.shift_id \in DOMAIN shifts
                 THEN [shifts EXCEPT ![r.shift_id].staff_id = r.requested_staff_id]
                 ELSE shifts
  /\ requests' = [requests EXCEPT ![request_id].status = "approved"]

\* a decline that hands the shift over all the same
Decline_reassigns(request_id) ==
  LET r == requests[request_id] IN
  /\ shifts' = IF r.shift_id \in DOMAIN shifts
                 THEN [shifts EXCEPT ![r.shift_id].staff_id = r.requested_staff_id]
                 ELSE shifts
  /\ requests' = [requests EXCEPT ![request_id].status = "denied"]

\* the decline branch of both staff paths: status = 'denied'; commit
Decline(request_id) ==
  /\ requests' = [requests EXCEPT ![request_id].status = "denied"]
  /\ UNCHANGED shifts

\* a respond that never compares the caller with the requested staff member
respond_to_swap_request_result_any_caller(staff_id, request_id, action) ==
  IF action \notin {"accept", "decline"} THEN "400"
  ELSE IF request_id \notin DOMAIN requests THEN "404"
  ELSE IF requests[request_id].status # "pending" THEN "400"
  ELSE "ok"

\* views/staffView.py respond_to_swap_request (staff API): the checks
respond_to_swap_request_result(staff_id, request_id, action) ==
  IF action \notin {"accept", "decline"} THEN "400"
  ELSE IF request_id \notin DOMAIN requests THEN "404"
  ELSE IF requests[request_id].requested_staff_id # staff_id THEN "403"
  ELSE IF requests[request_id].status # "pending" THEN "400"
  ELSE "ok"

\* views/staffView.py respond_to_swap_request
respond_to_swap_request(staff_id, request_id, action) ==
  IF respond_to_swap_request_result(staff_id, request_id, action) # "ok"
    THEN UNCHANGED vars
    ELSE /\ IF action = "accept" THEN Accept(request_id) ELSE Decline(request_id)
         /\ UNCHANGED <<nextShiftId, now, calls, run, scoring, responses, pair>>

\* views/staffView.py staff_swap_requests, POST (staff web form): the
\* conditions under which the post is processed; every branch ends in the
\* same redirect
staff_swap_requests_result(staff_id, request_id, action) ==
  IF request_id = 0 \/ action \notin {"accept", "decline"} THEN "ignored"
  ELSE IF request_id \notin DOMAIN requests THEN "ignored"
  ELSE IF requests[request_id].requested_staff_id # staff_id THEN "ignored"
  ELSE "ok"

\* views/staffView.py staff_swap_requests, POST
staff_swap_requests(staff_id, request_id, action) ==
  IF staff_swap_requests_result(staff_id, request_id, action) # "ok"
    THEN UNCHANGED vars
    ELSE /\ IF action = "accept" THEN Accept(request_id) ELSE Decline(request_id)
         /\ UNCHANGED <<nextShiftId, now, calls, run, scoring, responses, pair>>

\* respond_to_swap_request as the requests of two clients run it, each in a
\* session of its own: the action check and
\* swap_request = ShiftSwapRequest.query.get(request_id), the session's copy
respond_get(p, staff_id, request_id, action) ==
  /\ responses[p].pc = "idle"
  /\ responses' = [responses EXCEPT ![p] =
       IF action \notin {"accept", "decline"}
         THEN [NoResponse EXCEPT !.pc = "returned", !.staff_id = staff_id,
                 !.request_id = request_id, !.action = action, !.result = "400"]
         ELSE [pc |-> "loaded", staff_id |-> staff_id, request_id |-> request_id,
               action |-> action,
               found |-> request_id \in DOMAIN requests,
               requested_staff_id |-> IF request_id \in DOMAIN requests
                 THEN requests[request_id].requested_staff_id ELSE 0,
               status |-> IF request_id \in DOMAIN requests
                 THEN requests[request_id].status ELSE "",
               result |-> ""]]
  /\ UNCHANGED <<shifts, nextShiftId, requests, now, calls, run, scoring, pair>>

\* the checks of respond_to_swap_request, made on the session's copy
respond_loaded_result(p) ==
  IF ~responses[p].found THEN "404"
  ELSE IF responses[p].requested_staff_id # responses[p].staff_id THEN "403"
  ELSE IF responses[p].status # "pending" THEN "400"
  ELSE "ok"

\* the rest of respond_to_swap_request: the checks, the branch and the commit
respond_commit(p) ==
  /\ responses[p].pc = "loaded"
  /\ responses' = [responses EXCEPT ![p].pc = "returned",
                                    ![p].result = respond_loaded_result(p)]
  /\ IF respond_loaded_result(p) # "ok"
       THEN UNCHANGED <<shifts, requests>>
       ELSE IF responses[p].action = "accept"
         THEN Accept(responses[p].request_id)
         ELSE Decline(responses[p].request_id)
  /\ UNCHANGED <<nextShiftId, now, calls, run, scoring, pair>>

\* controllers/admin.py approve_swap_request, deny_swap_request: the check
admin_swap_result(request_id) ==
  IF request_id \notin DOMAIN requests THEN "ValueError" ELSE "ok"

\* controllers/admin.py approve_swap_request (admin API)
approve_swap_request(request_id) ==
  IF admin_swap_result(request_id) # "ok"
    THEN UNCHANGED vars
    ELSE /\ requests' = [requests EXCEPT ![request_id].status = "approved"]
         /\ UNCHANGED <<shifts, nextShiftId, now, calls, run, scoring, responses, pair>>

\* controllers/admin.py deny_swap_request (admin API)
deny_swap_request(request_id) ==
  IF admin_swap_result(request_id) # "ok"
    THEN UNCHANGED vars
    ELSE /\ requests' = [requests EXCEPT ![request_id].status = "denied"]
         /\ UNCHANGED <<shifts, nextShiftId, now, calls, run, scoring, responses, pair>>

\* views/index.py admin_requests, POST (admin web form): the checks
admin_requests_result(request_id, action) ==
  IF request_id = 0 \/ action = "" THEN "ignored"
  ELSE IF request_id \notin DOMAIN requests THEN "not found"
  ELSE "ok"

\* views/index.py admin_requests, POST
admin_requests(request_id, action) ==
  IF admin_requests_result(request_id, action) # "ok"
    THEN UNCHANGED vars
    ELSE /\ requests' = [requests EXCEPT ![request_id].status =
                           IF action = "approve" THEN "approved"
                           ELSE IF action = "deny" THEN "denied" ELSE @]
         /\ UNCHANGED <<shifts, nextShiftId, now, calls, run, scoring, responses, pair>>

\* ------------------------------------------------ clock_in, two sessions
(* controllers/staff.py clock_in as the requests of two clients run it: each *)
(* request has a session of its own.  db.session.get loads the row into the  *)
(* session; the checks read the loaded object; the assignment and the commit *)
(* write the row back.  Nothing locks the row between the two.               *)

\* shift = db.session.get(Shift, shift_id): the session's copy of the row
clock_in_get(p, staff_id, shift_id) ==
  /\ calls[p].pc = "idle"
  /\ calls' = [calls EXCEPT ![p] =
       [pc |-> "loaded", staff_id |-> staff_id, shift_id |-> shift_id,
        found |-> shift_id \in DOMAIN shifts,
        owner |-> IF shift_id \in DOMAIN shifts
                    THEN shifts[shift_id].staff_id ELSE 0,
        clock_in |-> IF shift_id \in DOMAIN shifts
                       THEN shifts[shift_id].clock_in ELSE 0,
        result |-> ""]]
  /\ UNCHANGED <<shifts, nextShiftId, requests, now, run, scoring, responses, pair>>

\* the checks of clock_in, made on the session's copy
clock_in_loaded_result(p) ==
  IF ~calls[p].found THEN "ValueError"
  ELSE IF calls[p].owner # calls[p].staff_id THEN "PermissionError"
  ELSE IF calls[p].clock_in # 0 THEN "ValueError"
  ELSE IF calls[p].shift_id \notin DOMAIN shifts THEN "StaleDataError"
  ELSE "ok"

\* the rest of clock_in: the checks, shift.clock_in = datetime.now(), commit
clock_in_commit(p, t) ==
  /\ calls[p].pc = "loaded"
  /\ calls' = [calls EXCEPT ![p].pc = "returned",
                            ![p].result = clock_in_loaded_result(p)]
  /\ IF clock_in_loaded_result(p) # "ok"
       THEN UNCHANGED <<shifts, now>>
       ELSE /\ shifts' = [shifts EXCEPT ![calls[p].shift_id].clock_in = t]
            /\ now' = t
  /\ UNCHANGED <<nextShiftId, requests, run, scoring, responses, pair>>

\* ------------------------------------------------ scheduling strategies
(* A timestamp of a shift is a whole number of hours since midnight of day  *)
(* 0: its calendar date is  t \div 24  and its hour of the day  t % 24.     *)
date(t) == t \div 24
hour(t) == t % 24

\* auto_populate_schedule: the default shift hours of its signature
shift_start_hour == 9
shift_end_hour == 17
\* BalancedDayNightStrategy: day_shift_hours or (6, 18)
day_shift_hours == <<6, 18>>

\* EvenDistributionStrategy.calculate_shift_duration_hours
calculate_shift_duration_hours(start_time, end_time) == end_time - start_time

\* an is_day_shift whose day window includes its end hour
is_day_shift_closed(start_time, hours) ==
  hours[1] <= hour(start_time) /\ hour(start_time) <= hours[2]

\* BalancedDayNightStrategy.is_day_shift
is_day_shift(start_time, hours) ==
  hours[1] <= hour(start_time) /\ hour(start_time) < hours[2]

\* Python compares the key tuples of min() lexicographically
LexLess(x, y) == x[1] < y[1] \/ (x[1] = y[1] /\ x[2] < y[2])

\* a min() that keeps the last of the elements with the least key
MinBy_last(ids, keys) ==
  IF ids = << >> THEN 0
  ELSE ids[CHOOSE i \in 1..Len(ids) :
             /\ \A j \in 1..Len(ids) : ~LexLess(keys[j], keys[i])
             /\ \A j \in (i + 1)..Len(ids) : LexLess(keys[i], keys[j])]

\* min(ids, key=...): the first element of ids whose key no element
\* undercuts; keys[i] is the key of ids[i].  min() of an empty sequence
\* raises ValueError: 0 stands for it
MinBy(ids, keys) ==
  IF ids = << >> THEN 0
  ELSE ids[CHOOSE i \in 1..Len(ids) :
             /\ \A j \in 1..Len(ids) : ~LexLess(keys[j], keys[i])
             /\ \A j \in 1..(i - 1) : LexLess(keys[i], keys[j])]

(* A stats dict is the sequence of its entries in key order (the order the  *)
(* keys were inserted in); every entry carries its key as staff_id.         *)
Keys(stats) == [i \in 1..Len(stats) |-> stats[i].staff_id]
Has(stats, sid) == \E i \in 1..Len(stats) : stats[i].staff_id = sid
Get(stats, sid) == stats[CHOOSE i \in 1..Len(stats) : stats[i].staff_id = sid]

\* an EvenDistributionStrategy.score_staff that prefers the busiest
EvenDistribution_score_staff_max(stats) ==
  IF stats = << >> THEN 0
  ELSE MinBy(Keys(stats),
             [i \in 1..Len(stats) |->
                <<0 - stats[i].shifts_assigned, 0 - stats[i].hours_assigned>>])

\* an EvenDistributionStrategy.score_staff whose key is the shift count alone
EvenDistribution_score_staff_shifts_only(stats) ==
  IF stats = << >> THEN 0
  ELSE MinBy(Keys(stats),
             [i \in 1..Len(stats) |-> <<stats[i].shifts_assigned, 0>>])

\* EvenDistributionStrategy.score_staff; 0 stands for the ValueError raised
EvenDistribution_score_staff(stats) ==
  IF stats = << >> THEN 0
  ELSE MinBy(Keys(stats),
             [i \in 1..Len(stats) |->
                <<stats[i].shifts_assigned, stats[i].hours_assigned>>])

\* a score that prefers the candidates for whom the target day is a new day
MinDaysPerWeek_score_new_day(stats, target_day, sid) ==
  LET days_set == IF Has(stats, sid) THEN Get(stats, sid).days ELSE {}
  IN  <<IF target_day \in days_set THEN 1 ELSE 0, Cardinality(days_set)>>

\* a score that puts the number of days worked before the target day
MinDaysPerWeek_score_days_first(stats, target_day, sid) ==
  LET days_set == IF Has(stats, sid) THEN Get(stats, sid).days ELSE {}
  IN  <<Cardinality(days_set), IF target_day \in days_set THEN 0 ELSE 1>>

\* MinDaysPerWeekStrategy.score_staff: the score of one candidate
MinDaysPerWeek_score(stats, target_day, sid) ==
  LET days_set == IF Has(stats, sid) THEN Get(stats, sid).days ELSE {}
  IN  <<IF target_day \in days_set THEN 0 ELSE 1, Cardinality(days_set)>>

\* MinDaysPerWeekStrategy.score_staff; 0 stands for the ValueError raised
MinDaysPerWeek_score_staff(eligible_staff_ids, stats, target_day) ==
  IF stats = << >> THEN 0
  ELSE MinBy(eligible_staff_ids,
             [i \in 1..Len(eligible_staff_ids) |->
                MinDaysPerWeek_score(stats, target_day, eligible_staff_ids[i])])

\* a score that takes every shift to assign for a day shift
BalancedDayNight_score_day_only(stats, is_day, sid) ==
  LET st == IF Has(stats, sid) THEN Get(stats, sid)
            ELSE [staff_id |-> sid, day_count |-> 0,
                  night_count |-> 0, total_hours |-> 0]
  IN  <<st.day_count - st.night_count, st.total_hours>>

\* BalancedDayNightStrategy.score_staff: the score of one candidate
BalancedDayNight_score(stats, is_day, sid) ==
  LET st == IF Has(stats, sid) THEN Get(stats, sid)
            ELSE [staff_id |-> sid, day_count |-> 0,
                  night_count |-> 0, total_hours |-> 0]
  IN  <<IF is_day THEN st.day_count - st.night_count
                  ELSE st.night_count - st.day_count,
        st.total_hours>>

\* BalancedDayNightStrategy.score_staff; 0 stands for the ValueError raised
BalancedDayNight_score_staff(eligible_staff_ids, stats, is_day) ==
  IF stats = << >> THEN 0
  ELSE MinBy(eligible_staff_ids,
             [i \in 1..Len(eligible_staff_ids) |->
                BalancedDayNight_score(stats, is_day, eligible_staff_ids[i])])

\* strategy.score_staff(...) as a caller makes it: the strategy object was
\* built with scoring.eligible_staff_ids, the call hands it scoring.stats and,
\* by strategy, the target day or the day flag; best is what it returns
EvenDistribution_call ==
  /\ scoring.pc = "called" /\ scoring.strategy_type = "even"
  /\ scoring' = [scoring EXCEPT !.pc = "returned",
                   !.best = EvenDistribution_score_staff(scoring.stats)]
  /\ UNCHANGED <<shifts, nextShiftId, requests, now, calls, run, responses, pair>>

MinDaysPerWeek_call ==
  /\ scoring.pc = "called" /\ scoring.strategy_type = "min_days"
  /\ scoring' = [scoring EXCEPT !.pc = "returned",
                   !.best = MinDaysPerWeek_score_staff(
                              scoring.eligible_staff_ids, scoring.stats,
                              scoring.target_day)]
  /\ UNCHANGED <<shifts, nextShiftId, requests, now, calls, run, responses, pair>>

BalancedDayNight_call ==
  /\ scoring.pc = "called" /\ scoring.strategy_type = "balanced"
  /\ scoring' = [scoring EXCEPT !.pc = "returned",
                   !.best = BalancedDayNight_score_staff(
                              scoring.eligible_staff_ids, scoring.stats,
                              scoring.is_day)]
  /\ UNCHANGED <<shifts, nextShiftId, requests, now, calls, run, responses, pair>>

\* BalancedDayNightStrategy.is_day_shift(start_time, day_shift_hours) as a
\* caller makes it; is_day is what it returns
is_day_shift_call ==
  /\ scoring.pc = "called" /\ scoring.strategy_type = "is_day_shift"
  /\ scoring' = [scoring EXCEPT !.pc = "returned",
                   !.is_day = is_day_shift(scoring.start_time,
                                           scoring.day_shift_hours)]
  /\ UNCHANGED <<shifts, nextShiftId, requests, now, calls, run, responses, pair>>

\* ------------------------------------------------------- auto-populate
\* Shift.query.filter_by(staff_id=staff_id): the ids of the rows
ShiftsOf(staff_id) == {id \in DOMAIN shifts : shifts[id].staff_id = staff_id}

RECURSIVE SumHours(_)
\* the scheduled hours of the shifts ids, summed
SumHours(ids) ==
  IF ids = {} THEN 0
  ELSE LET id == CHOOSE x \in ids : TRUE
       IN  calculate_shift_duration_hours(shifts[id].start_time, shifts[id].end_time)
             + SumHours(ids \ {id})

\* a lookup that takes every id of the list for a staff member
ExistingStaff_unverified(staff_ids) == staff_ids

\* the staff ids of a list that resolve to a Staff row, in the list's order
ExistingStaff(staff_ids) == SelectSeq(staff_ids, LAMBDA sid : role(sid) = "staff")

\* ScheduleController._get_staff_stats
get_staff_stats(staff_ids) ==
  LET ids == ExistingStaff(staff_ids) IN
  [i \in 1..Len(ids) |->
     [staff_id |-> ids[i],
      shifts_assigned |-> Cardinality(ShiftsOf(ids[i])),
      hours_assigned |-> SumHours(ShiftsOf(ids[i]))]]

\* ScheduleController._get_days_worked
get_days_worked(staff_ids) ==
  LET ids == ExistingStaff(staff_ids) IN
  [i \in 1..Len(ids) |->
     [staff_id |-> ids[i],
      days |-> {date(shifts[id].start_time) : id \in ShiftsOf(ids[i])}]]

\* ScheduleController._get_day_night_stats
get_day_night_stats(staff_ids, hours) ==
  LET ids == ExistingStaff(staff_ids) IN
  [i \in 1..Len(ids) |->
     LET day == {id \in ShiftsOf(ids[i]) : is_day_shift(shifts[id].start_time, hours)}
     IN  [staff_id |-> ids[i],
          day_count |-> Cardinality(day),
          night_count |-> Cardinality(ShiftsOf(ids[i]) \ day),
          total_hours |-> SumHours(ShiftsOf(ids[i]))]]

Strategies == {"even", "min_days", "balanced"}

\* a validation that lets any strategy name through
auto_populate_schedule_result_any_strategy(schedule_id, strategy_type, eligible_staff_ids) ==
  IF schedule_id \notin Schedules THEN "404"
  ELSE IF eligible_staff_ids = << >> THEN "400"
  ELSE "ok"

\* auto_populate_schedule: the validation made before the loop
auto_populate_schedule_result(schedule_id, strategy_type, eligible_staff_ids) ==
  IF schedule_id \notin Schedules THEN "404"
  ELSE IF eligible_staff_ids = << >> THEN "400"
  ELSE IF strategy_type \notin Strategies THEN "400"
  ELSE "ok"

\* auto_populate_schedule, up to the loop: a call that fails the validation
\* returns, one that passes it stands before day offset 0
auto_populate_schedule(schedule_id, strategy_type, eligible_staff_ids, num_days, base_date) ==
  /\ run.pc = "idle"
  /\ run' = [NoRun EXCEPT
       !.pc = IF auto_populate_schedule_result(
                   schedule_id, strategy_type, eligible_staff_ids) = "ok"
                THEN "loop" ELSE "returned",
       !.status = IF schedule_id \notin Schedules THEN 404
                  ELSE IF auto_populate_schedule_result(
                            schedule_id, strategy_type, eligible_staff_ids) = "ok"
                    THEN 0 ELSE 400,
       !.schedule_id = schedule_id, !.strategy_type = strategy_type,
       !.eligible_staff_ids = eligible_staff_ids,
       !.num_days = num_days, !.base_date = base_date]
  /\ UNCHANGED <<shifts, nextShiftId, requests, now, calls, scoring, responses, pair>>

\* the start and the end of the shift of day offset day
day_start_time(base_date, day) == 24 * (base_date + day) + shift_start_hour
day_end_time(base_date, day) == 24 * (base_date + day) + shift_end_hour

\* a loop that aggregates once, before day offset 0, and reuses the result
run_stats_once ==
  IF run.day > 0 THEN run.stats
  ELSE IF run.strategy_type = "even" THEN get_staff_stats(run.eligible_staff_ids)
  ELSE IF run.strategy_type = "min_days" THEN get_days_worked(run.eligible_staff_ids)
  ELSE get_day_night_stats(run.eligible_staff_ids, day_shift_hours)

\* the loop's call of _get_*_stats(): the aggregate of the store as it is now
run_stats ==
  IF run.strategy_type = "even" THEN get_staff_stats(run.eligible_staff_ids)
  ELSE IF run.strategy_type = "min_days" THEN get_days_worked(run.eligible_staff_ids)
  ELSE get_day_night_stats(run.eligible_staff_ids, day_shift_hours)

\* the loop's call of strategy.score_staff(stats): the staff id picked
run_best_staff_id(stats) ==
  IF run.strategy_type = "even" THEN EvenDistribution_score_staff(stats)
  ELSE IF run.strategy_type = "min_days"
    THEN MinDaysPerWeek_score_staff(run.eligible_staff_ids, stats,
                                    date(day_start_time(run.base_date, run.day)))
  ELSE BalancedDayNight_score_staff(run.eligible_staff_ids, stats,
         is_day_shift(day_start_time(run.base_date, run.day), day_shift_hours))

\* a loop that dates every shift on the base date
auto_populate_day_same_date ==
  /\ run.pc = "loop" /\ run.day < run.num_days
  /\ IF run_best_staff_id(run_stats) = 0
       THEN /\ run' = [run EXCEPT !.pc = "returned", !.status = 500,
                                  !.stats = run_stats]
            /\ UNCHANGED <<shifts, nextShiftId>>
       ELSE /\ shifts' = Insert(shifts, nextShiftId,
                 Shift(run_best_staff_id(run_stats), run.schedule_id,
                       day_start_time(run.base_date, 0),
                       day_end_time(run.base_date, 0)))
            /\ nextShiftId' = nextShiftId + 1
            /\ run' = [run EXCEPT !.day = @ + 1, !.stats = run_stats,
                                  !.shifts = Append(@, nextShiftId)]
  /\ UNCHANGED <<requests, now, calls, scoring, responses, pair>>

\* one iteration of the loop of auto_populate_schedule: the day's times, the
\* stats, the strategy's pick, the new Shift added and committed; a
\* score_staff that raises ends the call with an error
auto_populate_day ==
  /\ run.pc = "loop" /\ run.day < run.num_days
  /\ IF run_best_staff_id(run_stats) = 0
       THEN /\ run' = [run EXCEPT !.pc = "returned", !.status = 500,
                                  !.stats = run_stats]
            /\ UNCHANGED <<shifts, nextShiftId>>
       ELSE /\ shifts' = Insert(shifts, nextShiftId,
                 Shift(run_best_staff_id(run_stats), run.schedule_id,
                       day_start_time(run.base_date, run.day),
                       day_end_time(run.base_date, run.day)))
            /\ nextShiftId' = nextShiftId + 1
            /\ run' = [run EXCEPT !.day = @ + 1, !.stats = run_stats,
                                  !.shifts = Append(@, nextShiftId)]
  /\ UNCHANGED <<requests, now, calls, scoring, responses, pair>>

\* the first half of one iteration, as it runs beside other requests: the
\* day's times and the call of _get_*_stats(), whose result the run holds
auto_populate_read ==
  /\ run.pc = "loop" /\ run.day < run.num_days
  /\ run' = [run EXCEPT !.pc = "scored", !.stats = run_stats]
  /\ UNCHANGED <<shifts, nextShiftId, requests, now, calls, scoring, responses, pair>>

\* the second half: the strategy's pick from the stats the run holds, the
\* new Shift added and committed
auto_populate_persist ==
  /\ run.pc = "scored"
  /\ IF run_best_staff_id(run.stats) = 0
       THEN /\ run' = [run EXCEPT !.pc = "returned", !.status = 500]
            /\ UNCHANGED <<shifts, nextShiftId>>
       ELSE /\ shifts' = Insert(shifts, nextShiftId,
                 Shift(run_best_staff_id(run.stats), run.schedule_id,
                       day_start_time(run.base_date, run.day),
                       day_end_time(run.base_date, run.day)))
            /\ nextShiftId' = nextShiftId + 1
            /\ run' = [run EXCEPT !.pc = "loop", !.day = @ + 1,
                                  !.shifts = Append(@, nextShiftId)]
  /\ UNCHANGED <<requests, now, calls, scoring, responses, pair>>

\* a failed commit that takes the shifts of the earlier iterations with it
auto_populate_day_fails_rollback ==
  /\ run.pc = "loop" /\ run.day < run.num_days
  /\ run_best_staff_id(run_stats) # 0
  /\ shifts' = [id \in {x \in DOMAIN shifts :
                           \A i \in 1..Len(run.shifts) : run.shifts[i] # x}
                 |-> shifts[id]]
  /\ run' = [run EXCEPT !.pc = "returned", !.status = 500, !.stats = run_stats,
                        !.error = <<Len(run.shifts), run.num_days>>]
  /\ UNCHANGED <<nextShiftId, requests, now, calls, scoring, responses, pair>>

\* one iteration of the loop whose db.session.commit() raises: the session
\* drops the Shift it was to insert, the rows committed by the iterations
\* before stay, the loop ends and the call returns the error, which says how
\* many of the num_days shifts were created
auto_populate_day_fails ==
  /\ run.pc = "loop" /\ run.day < run.num_days
  /\ run_best_staff_id(run_stats) # 0
  /\ run' = [run EXCEPT !.pc = "returned", !.status = 500, !.stats = run_stats,
                        !.error = <<Len(run.shifts), run.num_days>>]
  /\ UNCHANGED <<shifts, nextShiftId, requests, now, calls, scoring, responses, pair>>

\* the return of auto_populate_schedule after the last day offset:
\* ({"shifts": [...], "count": N}, 201)
auto_populate_return ==
  /\ run.pc = "loop" /\ run.day = run.num_days
  /\ run' = [run EXCEPT !.pc = "returned", !.status = 201]
  /\ UNCHANGED <<shifts, nextShiftId, requests, now, calls, scoring, responses, pair>>

\* ------------------------------------- two runs from the same store
(* auto_populate_schedule run with 'even' and with 'min_days' from one      *)
(* store, with the same eligible list, day count, hours and base date:      *)
(* pair.even and pair.min_days are the Shift table of each run, and the     *)
(* aggregates below are _get_staff_stats and _get_days_worked over a table. *)
ShiftsOfIn(store, staff_id) == {id \in DOMAIN store : store[id].staff_id = staff_id}

RECURSIVE SumHoursIn(_, _)
SumHoursIn(store, ids) ==
  IF ids = {} THEN 0
  ELSE LET id == CHOOSE x \in ids : TRUE
       IN  calculate_shift_duration_hours(store[id].start_time, store[id].end_time)
             + SumHoursIn(store, ids \ {id})

get_staff_stats_in(store, staff_ids) ==
  LET ids == ExistingStaff(staff_ids) IN
  [i \in 1..Len(ids) |->
     [staff_id |-> ids[i],
      shifts_assigned |-> Cardinality(ShiftsOfIn(store, ids[i])),
      hours_assigned |-> SumHoursIn(store, ShiftsOfIn(store, ids[i]))]]

get_days_worked_in(store, staff_ids) ==
  LET ids == ExistingStaff(staff_ids) IN
  [i \in 1..Len(ids) |->
     [staff_id |-> ids[i],
      days |-> {date(store[id].start_time) : id \in ShiftsOfIn(store, ids[i])}]]

\* one iteration of the loop in each of the two runs
pair_day ==
  /\ pair.pc = "loop" /\ pair.day < pair.num_days
  /\ LET start_time == day_start_time(pair.base_date, pair.day)
         end_time == day_end_time(pair.base_date, pair.day)
         even == EvenDistribution_score_staff(
                   get_staff_stats_in(pair.even, pair.eligible_staff_ids))
         min_days == MinDaysPerWeek_score_staff(pair.eligible_staff_ids,
                       get_days_worked_in(pair.min_days, pair.eligible_staff_ids),
                       date(start_time))
     IN  IF even = 0 \/ min_days = 0
           THEN pair' = [pair EXCEPT !.pc = "returned", !.status = 500]
           ELSE pair' = [pair EXCEPT
                  !.even = Insert(@, Len(@) + 1, Shift(even, 1, start_time, end_time)),
                  !.min_days = Insert(@, Len(@) + 1,
                                      Shift(min_days, 1, start_time, end_time)),
                  !.day = @ + 1]
  /\ UNCHANGED <<shifts, nextShiftId, requests, now, calls, run, scoring, responses>>

\* the return of both runs after the last day offset
pair_return ==
  /\ pair.pc = "loop" /\ pair.day = pair.num_days
  /\ pair' = [pair EXCEPT !.pc = "returned", !.status = 201]
  /\ UNCHANGED <<shifts, nextShiftId, requests, now, calls, run, scoring, responses>>

\* ------------------------------------------------------ specifications
(* The calls the environment can make.  The handlers are the same in both  *)
(* specifications; what differs is the sets the arguments are drawn from.  *)
(* The caps on the rows ever created stand here, not in the handlers.      *)

\* the users that act in the lifecycle and swap specifications: the admin and
\* the first two staff members; and the ids they may send, one of no user
Actors == 1..3
ActorInputs == Actors \cup {NumStaff + 2}

\* the shift lifecycle: shifts of every start time, scheduled with a schedule
\* id or with None, a running clock, and at most MaxSwaps swap requests, made
\* to staff
Next ==
  \/ \E s \in ActorInputs, sc \in InputScheduleIds \cup {0}, st \in Times, en \in EndTimes :
       nextShiftId <= MaxShifts /\ schedule_shift(s, sc, st, en)
  \/ \E s \in Actors, st \in Times, en \in EndTimes :
       nextShiftId <= MaxShifts /\ create_shift(s, st, en)
  \/ \E s \in Actors, id \in ShiftIdInputs, t \in ClockReadings : clock_in(s, id, t)
  \/ \E s \in Actors, id \in ShiftIdInputs, t \in ClockReadings : clock_out(s, id, t)
  \/ \E id \in ShiftIdInputs, st \in Times \cup {0}, en \in EndTimes \cup {0} :
       update_shift(id, st, en)
  \/ \E id \in ShiftIdInputs : delete_shift(id)
  \/ \E s \in Actors, id \in ShiftIdInputs \cup {0}, t \in (Actors \cap StaffIds) \cup {0} :
       nextRequestId <= MaxSwaps /\ create_swap_request(s, id, t)
  \/ \E s \in Actors, r \in 1..(MaxSwaps + 1), a \in StaffActions :
       respond_to_swap_request(s, r, a)
  \/ \E s \in Actors, r \in 0..(MaxSwaps + 1), a \in StaffActions :
       staff_swap_requests(s, r, a)
  \/ \E r \in 1..(MaxSwaps + 1) : approve_swap_request(r)
  \/ \E r \in 1..(MaxSwaps + 1) : deny_swap_request(r)
  \/ \E r \in 0..(MaxSwaps + 1), a \in AdminActions \cup {""} :
       admin_requests(r, a)

Spec == Init /\ [][Next]_vars

\* the swap workflow: MaxRequests swap requests to any user, over shifts of
\* one time slot clocked within one reading of the clock
NextSwap ==
  \/ \E s \in ActorInputs, sc \in InputScheduleIds, st \in {1}, en \in EndTimes :
       nextShiftId <= MaxShifts /\ schedule_shift(s, sc, st, en)
  \/ \E s \in AdminIds, st \in {1}, en \in EndTimes :
       nextShiftId <= MaxShifts /\ create_shift(s, st, en)
  \/ \E s \in Actors, id \in ShiftIdInputs, t \in SameReading : clock_in(s, id, t)
  \/ \E s \in Actors, id \in ShiftIdInputs, t \in SameReading : clock_out(s, id, t)
  \/ \E id \in ShiftIdInputs, st \in {1} \cup {0}, en \in EndTimes \cup {0} :
       update_shift(id, st, en)
  \/ \E id \in ShiftIdInputs : delete_shift(id)
  \/ \E s \in Actors, id \in ShiftIdInputs \cup {0}, t \in Actors \cup {0} :
       nextRequestId <= MaxRequests /\ create_swap_request(s, id, t)
  \/ \E s \in Actors, r \in 1..(MaxRequests + 1), a \in StaffActions :
       respond_to_swap_request(s, r, a)
  \/ \E s \in Actors, r \in 0..(MaxRequests + 1), a \in StaffActions :
       staff_swap_requests(s, r, a)
  \/ \E r \in 1..(MaxRequests + 1) : approve_swap_request(r)
  \/ \E r \in 1..(MaxRequests + 1) : deny_swap_request(r)
  \/ \E r \in 0..(MaxRequests + 1), a \in AdminActions \cup {""} :
       admin_requests(r, a)

SpecSwap == Init /\ [][NextSwap]_vars

\* two clients clocking in at once, on shifts the admin schedules
NextRace ==
  \/ \E s \in Actors, sc \in InputScheduleIds, st \in Times, en \in EndTimes :
       nextShiftId <= MaxShifts /\ schedule_shift(s, sc, st, en)
  \/ \E p \in Callers, s \in Actors, id \in ShiftIdInputs : clock_in_get(p, s, id)
  \/ \E p \in Callers, t \in ClockReadings : clock_in_commit(p, t)
  \/ \E s \in Actors, id \in ShiftIdInputs, t \in ClockReadings : clock_out(s, id, t)

SpecRace == Init /\ [][NextRace]_vars

\* the swap responses of NumCalls clients served at once: shifts of one
\* time slot, at most MaxSwaps swap requests over them, and the two halves
\* of each response in any order
NextRespondRace ==
  \/ \E s \in Actors, sc \in InputScheduleIds, st \in {1}, en \in EndTimes :
       nextShiftId <= MaxShifts /\ schedule_shift(s, sc, st, en)
  \/ \E s \in Actors, id \in ShiftIdInputs \cup {0}, t \in Actors \cup {0} :
       nextRequestId <= MaxSwaps /\ create_swap_request(s, id, t)
  \/ \E p \in Callers, s \in Actors, r \in 1..(MaxSwaps + 1), a \in StaffActions :
       respond_get(p, s, r, a)
  \/ \E p \in Callers : respond_commit(p)

SpecRespondRace == Init /\ [][NextRespondRace]_vars

\* the eligible_staff_ids a caller may send: lists of staff, in either order,
\* the empty list, and lists with the admin's id or an id of no user
EligibleLists ==
  {<< >>, <<2, 3, 4>>, <<4, 3, 2>>, <<3, 2>>, <<2, NumStaff + 2, 3>>,
   <<NumStaff + 2>>, <<1, 4>>}
NumDaysInputs == {0, 1, 2, MaxDays}
BaseDates == {0, 1}

\* the shifts of the store that no auto-populate run created
ManualShifts == {id \in DOMAIN shifts :
                   \A i \in 1..Len(run.shifts) : run.shifts[i] # id}

\* one auto-populate run, and before, during and after it at most MaxManual
\* shifts the admin schedules by hand
NextAuto ==
  \/ \E s \in StaffIds, sc \in Schedules, st \in Times, en \in EndTimes :
       Cardinality(ManualShifts) < MaxManual /\ schedule_shift(s, sc, st, en)
  \/ \E sc \in InputScheduleIds, ty \in Strategies \cup {"other"},
        el \in EligibleLists, n \in NumDaysInputs, b \in BaseDates :
       auto_populate_schedule(sc, ty, el, n, b)
  \/ auto_populate_day
  \/ auto_populate_day_fails
  \/ auto_populate_return

SpecAuto == Init /\ [][NextAuto]_vars

\* one auto-populate run beside an admin who schedules by hand: the admin's
\* request may be served between the two halves of an iteration
NextAutoRace ==
  \/ \E s \in StaffIds, sc \in Schedules, st \in Times, en \in EndTimes :
       Cardinality(ManualShifts) < MaxManual /\ schedule_shift(s, sc, st, en)
  \/ \E sc \in InputScheduleIds, ty \in Strategies \cup {"other"},
        el \in EligibleLists, n \in NumDaysInputs, b \in BaseDates :
       auto_populate_schedule(sc, ty, el, n, b)
  \/ auto_populate_read
  \/ auto_populate_persist
  \/ auto_populate_return

SpecAutoRace == Init /\ [][NextAutoRace]_vars

\* the stores the two runs start from: up to MaxPre shifts of staff members,
\* of four or eight hours, on the dates the runs cover and one after
PreDates == 0..(MaxRunDays + 1)
PreShifts ==
  {Shift(s, 1, 24 * d + shift_start_hour, 24 * d + shift_start_hour + h) :
     s \in StaffIds, d \in PreDates, h \in {4, 8}}
PairStores == UNION {[1..n -> PreShifts] : n \in 0..MaxPre}
\* the eligible lists of the runs: staff in either order, and a list with an
\* id that resolves to no staff member
PairEligible ==
  {<<2, 3>>, <<3, 2>>, <<2, 3, 4>>, <<4, 3, 2>>, <<3, NumStaff + 2, 2>>}

\* both runs past the validation, before day offset 0, over the same store
InitPair ==
  /\ shifts = << >>
  /\ nextShiftId = 1
  /\ requests = << >>
  /\ now = 1
  /\ calls = [p \in Callers |-> NoCall]
  /\ run = NoRun
  /\ scoring = NoScoring
  /\ responses = [p \in Callers |-> NoResponse]
  /\ \E store \in PairStores, el \in PairEligible, n \in 1..MaxRunDays,
        b \in BaseDates :
       pair = [NoPair EXCEPT !.pc = "loop", !.eligible_staff_ids = el,
                 !.num_days = n, !.base_date = b,
                 !.even = store, !.min_days = store]

NextPair ==
  \/ pair_day
  \/ pair_return

SpecPair == InitPair /\ [][NextPair]_vars

\* the score_staff calls: the ids that key a stats dict, the dicts' key
\* orders, and the stats dicts of each strategy over them
ScoreIds == 2..4
KeyLists ==
  {ks \in UNION {[1..n -> ScoreIds] : n \in 0..Cardinality(ScoreIds)} :
     \A i \in 1..Len(ks), j \in 1..Len(ks) : i # j => ks[i] # ks[j]}
\* the hours a stats entry may sum to: none, or one shift of eight hours
HoursInputs == {0, 8}
Dates == 0..MaxDate

EvenStats ==
  UNION {{[i \in 1..Len(ks) |->
             [staff_id |-> ks[i], shifts_assigned |-> v[i][1],
              hours_assigned |-> v[i][2]]] :
            v \in [1..Len(ks) -> (0..MaxCount) \X HoursInputs]} : ks \in KeyLists}

DaysStats ==
  UNION {{[i \in 1..Len(ks) |-> [staff_id |-> ks[i], days |-> v[i]]] :
            v \in [1..Len(ks) -> SUBSET Dates]} : ks \in KeyLists}

DayNightStats ==
  UNION {{[i \in 1..Len(ks) |->
             [staff_id |-> ks[i], day_count |-> v[i][1], night_count |-> v[i][2],
              total_hours |-> v[i][3]]] :
            v \in [1..Len(ks) -> (0..MaxCount) \X (0..MaxCount) \X HoursInputs]} :
         ks \in KeyLists}

\* the eligible_staff_ids a strategy may be built with: none, lists within
\* the keys of the dicts in either order, and a list with an id no dict holds
ScoreEligible == {<< >>, <<2>>, <<2, 3>>, <<3, 2>>, <<4, 3, 2>>, <<3, NumStaff + 2>>}

\* the arguments of an is_day_shift call: every hour of the days 0..MaxDate,
\* and the default window, a narrower one, the whole day and an empty one
StartTimes == 0..(24 * (MaxDate + 1) - 1)
DayShiftHours == {<<6, 18>>, <<8, 16>>, <<0, 24>>, <<18, 6>>}

\* a strategy object and the arguments of one score_staff call on it
InitScore ==
  /\ shifts = << >>
  /\ nextShiftId = 1
  /\ requests = << >>
  /\ now = 1
  /\ calls = [p \in Callers |-> NoCall]
  /\ run = NoRun
  /\ responses = [p \in Callers |-> NoResponse]
  /\ pair = NoPair
  /\ \E el \in ScoreEligible :
       \/ \E st \in EvenStats :
            scoring = [NoScoring EXCEPT !.pc = "called", !.strategy_type = "even",
                         !.eligible_staff_ids = el, !.stats = st]
       \/ \E st \in DaysStats, d \in Dates :
            scoring = [NoScoring EXCEPT !.pc = "called", !.strategy_type = "min_days",
                         !.eligible_staff_ids = el, !.stats = st, !.target_day = d]
       \/ \E st \in DayNightStats, b \in BOOLEAN :
            scoring = [NoScoring EXCEPT !.pc = "called", !.strategy_type = "balanced",
                         !.eligible_staff_ids = el, !.stats = st, !.is_day = b]
       \/ \E t \in StartTimes, hs \in DayShiftHours :
            scoring = [NoScoring EXCEPT !.pc = "called",
                         !.strategy_type = "is_day_shift",
                         !.start_time = t, !.day_shift_hours = hs]

NextScore ==
  \/ EvenDistribution_call
  \/ MinDaysPerWeek_call
  \/ BalancedDayNight_call
  \/ is_day_shift_call

SpecScore == InitScore /\ [][NextScore]_vars

\* ---------------------------------------------------------------- claims
Clocked(id) == shifts[id].clock_in # 0 \/ shifts[id].clock_out # 0

\* a step that writes nothing: a rejected call.  Every step formula below
\* holds of it, and says so first.
Quiet == UNCHANGED vars

\* C1: clockOut on a shift whose clock-in was never set is rejected, so no
\* reachable state has a shift with clock-out set and clock-in unset
\* (ClockedOut is never reached directly from Scheduled).
C1_NoClockOutBeforeClockIn ==
  \A id \in DOMAIN shifts : shifts[id].clock_out # 0 => shifts[id].clock_in # 0

C3_ClockOnce ==
  /\ [](\A id \in DOMAIN shifts, s \in InputIds :
          /\ shifts[id].clock_in # 0 =>
               /\ clock_in_result(s, id) # "ok"
               /\ s = shifts[id].staff_id => clock_in_result(s, id) = "ValueError"
          /\ shifts[id].clock_out # 0 =>
               /\ clock_out_result(s, id) # "ok"
               /\ s = shifts[id].staff_id => clock_out_result(s, id) = "ValueError")
  /\ [][Quiet \/ \A id \in DOMAIN shifts \cap DOMAIN shifts' :
          /\ shifts[id].clock_in # 0 => shifts'[id].clock_in = shifts[id].clock_in
          /\ shifts[id].clock_out # 0 => shifts'[id].clock_out = shifts[id].clock_out]_vars
  /\ [][Quiet \/ \A id \in DOMAIN shifts, s \in InputIds, t \in 1..MaxNow :
          \/ shifts[id].clock_in # 0 /\ clock_in(s, id, t)
          \/ shifts[id].clock_out # 0 /\ clock_out(s, id, t)
          => UNCHANGED vars]_vars

C3_Witness ==
  \E id \in DOMAIN shifts :
    /\ shifts[id].clock_in # 0 /\ shifts[id].clock_in < now
    /\ shifts[id].clock_out # 0
    /\ clock_in_result(shifts[id].staff_id, id) = "ValueError"
    /\ clock_out_result(shifts[id].staff_id, id) = "ValueError"

\* C4: clockIn and clockOut succeed only when the acting id equals the
\* shift's current owner; a call by any other id (another staff member or
\* an admin) is rejected with PermissionError and leaves the shift unchanged.
C4_OnlyOwnerClocks ==
  /\ [](\A id \in DOMAIN shifts, s \in InputIds :
          s # shifts[id].staff_id =>
            /\ clock_in_result(s, id) = "PermissionError"
            /\ clock_out_result(s, id) = "PermissionError")
  /\ [][Quiet \/ \A id \in DOMAIN shifts, s \in InputIds, t \in 1..MaxNow :
          /\ s # shifts[id].staff_id
          /\ clock_in(s, id, t) \/ clock_out(s, id, t)
          => UNCHANGED vars]_vars

\* the owner of a shift was changed by a swap, and the new owner clocked in
C4_Witness ==
  \E r \in DOMAIN requests :
    /\ requests[r].status = "approved"
    /\ requests[r].requesting_staff_id # requests[r].requested_staff_id
    /\ requests[r].shift_id \in DOMAIN shifts
    /\ shifts[requests[r].shift_id].staff_id = requests[r].requested_staff_id
    /\ shifts[requests[r].shift_id].clock_in # 0
    /\ clock_out_result(requests[r].requesting_staff_id, requests[r].shift_id)
         = "PermissionError"

\* C5: once either clock timestamp of a shift is set, its start and end times
\* never change and the shift is never removed: every updateShift and every
\* deleteShift on it is rejected (400) and leaves the store unchanged.
C5_ClockedShiftFrozen ==
  /\ [](\A id \in DOMAIN shifts :
          Clocked(id) =>
            /\ delete_shift_result(id) = "400"
            /\ \A st \in Times \cup {0}, en \in Times \cup {0} :
                 update_shift_result(id, st, en) = "400")
  /\ [][Quiet \/ \A id \in DOMAIN shifts :
          Clocked(id) =>
            /\ id \in DOMAIN shifts'
            /\ shifts'[id].start_time = shifts[id].start_time
            /\ shifts'[id].end_time = shifts[id].end_time]_vars
  /\ [][Quiet \/ \A id \in DOMAIN shifts, st \in Times \cup {0}, en \in Times \cup {0} :
          /\ Clocked(id)
          /\ update_shift(id, st, en) \/ delete_shift(id)
          => UNCHANGED vars]_vars

\* one shift is clocked and frozen while another was updated and yet
\* another id was deleted
C5_Witness ==
  \E id \in DOMAIN shifts :
    /\ Clocked(id)
    /\ delete_shift_result(id) = "400"
    /\ update_shift_result(id, 0, 0) = "400"
    /\ nextShiftId > MaxShifts
    /\ \E other \in 1..MaxShifts : other # id /\ other \notin DOMAIN shifts

\* ------------------------------------------------------------ swap claims
Pending(r) == requests[r].status = "pending"

\* C6: for a pending request on shift S naming staff B, respond(accept) by B
\* sets S's owner to B and the status to approved in the same step; a
\* further respond call on that request is rejected and changes nothing.
C6_AcceptReassigns ==
  /\ [](\A r \in DOMAIN requests :
          /\ Pending(r) =>
               respond_to_swap_request_result(
                 requests[r].requested_staff_id, r, "accept") = "ok"
          /\ ~Pending(r) =>
               \A s \in InputIds, a \in StaffActions :
                 respond_to_swap_request_result(s, r, a) # "ok")
  /\ [][Quiet \/ \A r \in DOMAIN requests, s \in InputIds :
          /\ Pending(r)
          /\ s = requests[r].requested_staff_id
          /\ respond_to_swap_request(s, r, "accept")
          => /\ requests' = [requests EXCEPT ![r].status = "approved"]
             /\ requests[r].shift_id \in DOMAIN shifts =>
                  shifts' = [shifts EXCEPT
                               ![requests[r].shift_id].staff_id = s]]_vars
  /\ [][Quiet \/ \A r \in DOMAIN requests, s \in InputIds, a \in StaffActions :
          ~Pending(r) /\ respond_to_swap_request(s, r, a) => UNCHANGED vars]_vars

C6_Witness ==
  \E r \in DOMAIN requests :
    /\ requests[r].status = "approved"
    /\ requests[r].requesting_staff_id # requests[r].requested_staff_id
    /\ requests[r].shift_id \in DOMAIN shifts
    /\ shifts[requests[r].shift_id].staff_id = requests[r].requested_staff_id
    /\ respond_to_swap_request_result(
         requests[r].requested_staff_id, r, "accept") = "400"

\* C7: Approved and Denied are terminal: once a swap request's status has
\* left pending, no operation on any path changes it again.
C7_TerminalStatus ==
  [][Quiet \/ \A r \in DOMAIN requests :
       ~Pending(r) => requests'[r].status = requests[r].status]_vars

\* C8: approval reassigns the shift on every approval path: whenever a
\* request becomes approved, its shift's owner is the requested staff member.
C8_ApprovalReassigns ==
  [][Quiet \/ \A r \in DOMAIN requests :
       /\ requests[r].status # "approved"
       /\ requests'[r].status = "approved"
       /\ requests[r].shift_id \in DOMAIN shifts'
       => shifts'[requests[r].shift_id].staff_id
            = requests[r].requested_staff_id]_vars

\* C9: a respond call on a pending request made by any id other than the
\* requested staff member (the requester included) is rejected as not
\* authorized (403; ignored by the web form) and changes neither the
\* request's status nor the shift's owner.
C9_OnlyRequestedResponds ==
  /\ [](\A r \in DOMAIN requests, s \in InputIds, a \in {"accept", "decline"} :
          Pending(r) /\ s # requests[r].requested_staff_id =>
            /\ respond_to_swap_request_result(s, r, a) = "403"
            /\ staff_swap_requests_result(s, r, a) = "ignored")
  /\ [][Quiet \/ \A r \in DOMAIN requests, s \in InputIds, a \in {"accept", "decline"} :
          /\ Pending(r)
          /\ s # requests[r].requested_staff_id
          /\ respond_to_swap_request(s, r, a) \/ staff_swap_requests(s, r, a)
          => UNCHANGED vars]_vars

\* a request its requester may not answer is pending, and its shift is still
\* the requester's
C9_Witness ==
  \E r \in DOMAIN requests :
    /\ Pending(r)
    /\ requests[r].requesting_staff_id # requests[r].requested_staff_id
    /\ requests[r].shift_id \in DOMAIN shifts
    /\ shifts[requests[r].shift_id].staff_id = requests[r].requesting_staff_id
    /\ respond_to_swap_request_result(
         requests[r].requesting_staff_id, r, "accept") = "403"

C11_ClockedOutTerminal ==
  [][Quiet \/ \A id \in DOMAIN shifts :
       shifts[id].clock_out # 0 =>
         /\ id \in DOMAIN shifts'
         /\ shifts'[id].clock_in = shifts[id].clock_in
         /\ shifts'[id].clock_out = shifts[id].clock_out]_vars

\* C12: whenever a shift has both clock timestamps set, its clock-in is not
\* later than its clock-out (the clock never runs backwards).
C12_ClockInNotAfterClockOut ==
  \A id \in DOMAIN shifts :
    shifts[id].clock_in # 0 /\ shifts[id].clock_out # 0 =>
      shifts[id].clock_in <= shifts[id].clock_out

\* C13: in every reachable state every stored shift has start < end,
\* whatever created or modified it.
C13_StartBeforeEnd ==
  \A id \in DOMAIN shifts : shifts[id].start_time < shifts[id].end_time

\* C14: schedule_shift creates a shift only when the staff id resolves to a
\* user with role staff and the schedule id to an existing schedule; otherwise
\* it is rejected, with PermissionError from the staff check, made first, and
\* ValueError from the schedule check, and the store is unchanged.
C14_ScheduleShiftChecks ==
  /\ [](\A s \in InputIds, sc \in InputScheduleIds :
          /\ role(s) # "staff" => schedule_shift_result(s, sc) = "PermissionError"
          /\ role(s) = "staff" /\ sc \notin Schedules =>
               schedule_shift_result(s, sc) = "ValueError"
          /\ role(s) = "staff" /\ sc \in Schedules =>
               schedule_shift_result(s, sc) = "ok")
  /\ [][Quiet \/ \A s \in InputIds, sc \in InputScheduleIds,
                     st \in Times, en \in Times :
          schedule_shift(s, sc, st, en) =>
            /\ role(s) = "staff"
            /\ sc \in Schedules
            /\ shifts' = Insert(shifts, nextShiftId, Shift(s, sc, st, en))
            /\ UNCHANGED requests]_vars

\* a shift made by schedule_shift, in a state where the call is refused for
\* the admin, for an id of no user and for a schedule that does not exist
C14_Witness ==
  /\ \E id \in DOMAIN shifts :
       shifts[id].schedule_id \in Schedules /\ role(shifts[id].staff_id) = "staff"
  /\ \A sc \in InputScheduleIds :
       /\ schedule_shift_result(1, sc) = "PermissionError"
       /\ schedule_shift_result(NumStaff + 2, sc) = "PermissionError"
  /\ \E sc \in InputScheduleIds : schedule_shift_result(2, sc) = "ValueError"

\* C15: in every reachable state every shift's owning staff id refers to an
\* existing staff member.
C15_OwnerIsStaff ==
  \A id \in DOMAIN shifts : role(shifts[id].staff_id) = "staff"

\* C16: when two clock_in calls on the same Scheduled shift run concurrently,
\* their read-check-write steps interleaved, at most one of them succeeds.
C16_OneClockInSucceeds ==
  \A p \in Callers, q \in Callers :
    /\ p # q
    /\ calls[p].result = "ok"
    /\ calls[q].result = "ok"
    => calls[p].shift_id # calls[q].shift_id

\* --------------------------------------------------- auto-populate claims
\* the staff of the run's eligible list that have a Staff row
RunStaff == {sid \in StaffIds :
               \E i \in 1..Len(run.eligible_staff_ids) : run.eligible_staff_ids[i] = sid}

\* no member of the run's eligible list owns a shift the run did not create
NoOtherLoad == \A id \in ManualShifts : shifts[id].staff_id \notin RunStaff

\* C17: from a store in which no eligible staff member owns a shift, during
\* an auto-populate run with the even strategy the largest and the smallest
\* per-staff shift count differ by at most 1 after every iteration; 6 shifts
\* over 3 staff end with counts 2, 2, 2.
C17_EvenSpread ==
  run.pc # "idle" /\ run.strategy_type = "even" /\ NoOtherLoad =>
    /\ \A a \in RunStaff, b \in RunStaff :
         Cardinality(ShiftsOf(a)) - Cardinality(ShiftsOf(b)) <= 1
    /\ run.status = 201 /\ run.num_days = 6 /\ Cardinality(RunStaff) = 3 =>
         \A a \in RunStaff : Cardinality(ShiftsOf(a)) = 2

C17_Witness ==
  /\ run.pc = "returned" /\ run.status = 201 /\ run.strategy_type = "even"
  /\ run.num_days = 6 /\ Cardinality(RunStaff) = 3 /\ NoOtherLoad
  /\ Len(run.shifts) = 6
  /\ \A a \in RunStaff : Cardinality(ShiftsOf(a)) = 2

C19_ValidationBeforeLoop ==
  /\ [](\A sc \in InputScheduleIds, ty \in Strategies \cup {"other"},
           el \in EligibleLists :
          sc \notin Schedules \/ el = << >> \/ ty \notin Strategies =>
            auto_populate_schedule_result(sc, ty, el) \in {"400", "404"})
  /\ [][Quiet \/ \A sc \in InputScheduleIds, ty \in Strategies \cup {"other"},
                    el \in EligibleLists, n \in NumDaysInputs, b \in BaseDates :
          /\ sc \notin Schedules \/ el = << >> \/ ty \notin Strategies
          /\ auto_populate_schedule(sc, ty, el, n, b)
          => /\ shifts' = shifts /\ nextShiftId' = nextShiftId
             /\ run'.pc = "returned"
             /\ run'.status \in {400, 404}
             /\ run'.shifts = << >>]_vars
  /\ [][run.pc = "returned" => run' = run]_vars

\* a call with an unknown strategy name returned 400 and left the store, which
\* holds a shift, as it was
C19_Witness ==
  /\ run.pc = "returned" /\ run.status = 400 /\ run.shifts = << >>
  /\ run.strategy_type = "other" /\ run.eligible_staff_ids # << >>
  /\ run.num_days = MaxDays
  /\ DOMAIN shifts # {} /\ ManualShifts = DOMAIN shifts

\* the aggregate of the store, as the run's strategy is handed it
StoreAggregate ==
  IF run.strategy_type = "even" THEN get_staff_stats(run.eligible_staff_ids)
  ELSE IF run.strategy_type = "min_days" THEN get_days_worked(run.eligible_staff_ids)
  ELSE get_day_night_stats(run.eligible_staff_ids, day_shift_hours)

\* C20: within one auto-populate run, the stats handed to the strategy at day
\* offset i are computed from the store as it is after the shifts of offsets
\* 0..i-1 of the run were persisted, together with the shifts that existed
\* before: every earlier decision of the run is counted in them.
C20_StatsSeeEarlierDays ==
  [][run.pc = "loop" /\ run'.day # run.day =>
       /\ \A i \in 1..Len(run.shifts) : run.shifts[i] \in DOMAIN shifts
       /\ run'.stats = StoreAggregate
       /\ run.strategy_type = "even" =>
            \A k \in 1..Len(run'.stats) :
              run'.stats[k].shifts_assigned >=
                Cardinality({i \in 1..Len(run.shifts) :
                   shifts[run.shifts[i]].staff_id = run'.stats[k].staff_id})]_vars

\* the third iteration of an even run was handed stats that count the shifts
\* of the first two and a shift made by hand
C20_Witness ==
  /\ run.strategy_type = "even" /\ run.day = 3
  /\ \E id \in ManualShifts : id < run.shifts[1]
  /\ \A k \in 1..Len(run.stats) : run.stats[k].shifts_assigned = 1
  /\ Len(run.stats) = 3

\* C21: if persisting the shift of day offset k fails during an auto-populate
\* run, the k shifts created at offsets 0..k-1 remain in the store, no later
\* offset is attempted, and the caller receives an error that reports k of
\* the N requested shifts as created.
C21_FailureKeepsEarlierDays ==
  /\ [](run.pc = "returned" /\ run.error # << >> =>
          /\ run.status = 500
          /\ run.error = <<run.day, run.num_days>>
          /\ run.day < run.num_days
          /\ Len(run.shifts) = run.day
          /\ \A i \in 1..run.day :
               /\ run.shifts[i] \in DOMAIN shifts
               /\ date(shifts[run.shifts[i]].start_time) = run.base_date + (i - 1)
          /\ \A id \in DOMAIN shifts \ ManualShifts :
               date(shifts[id].start_time) < run.base_date + run.day)
  /\ [][Quiet \/ (run.pc = "loop" /\ run'.error # << >> =>
          /\ shifts' = shifts
          /\ nextShiftId' = nextShiftId
          /\ run'.pc = "returned"
          /\ run'.day = run.day /\ run'.shifts = run.shifts)]_vars
  /\ [][run.pc = "returned" /\ run.error # << >> => run' = run]_vars

\* the commit of day offset 2 of a run of MaxDays days failed: the shifts of
\* offsets 0 and 1 are in the store beside a shift made by hand
C21_Witness ==
  /\ run.pc = "returned" /\ run.status = 500
  /\ run.error = <<2, MaxDays>>
  /\ Len(run.shifts) = 2
  /\ \A i \in 1..2 : run.shifts[i] \in DOMAIN shifts
  /\ ManualShifts # {}
  /\ Cardinality(DOMAIN shifts) = 3

\* C28: manualAssign called without a schedule id succeeds (given an existing
\* staff member and start < end) and creates a Scheduled shift attached to no
\* schedule.
C28_ShiftWithoutSchedule ==
  \A s \in StaffIds, st \in Times, en \in Times :
    st < en /\ nextShiftId \notin DOMAIN shifts =>
      schedule_shift_result(s, 0) = "ok"

\* C29: updateShift(shiftId) with neither a new start nor a new end, applied
\* to a shift created by manualAssign with start = T1 and end = T2 that was
\* never clocked, succeeds and returns the shift with start = T1 and end = T2
\* and every other field unchanged.
C29_UpdateWithoutArguments ==
  /\ [](\A id \in DOMAIN shifts :
          ~Clocked(id) => update_shift_result(id, 0, 0) = "ok")
  /\ [][Quiet \/ \A id \in DOMAIN shifts :
          ~Clocked(id) /\ update_shift(id, 0, 0) =>
            /\ shifts' = shifts
            /\ UNCHANGED <<nextShiftId, requests, now>>]_vars

\* a shift made by schedule_shift with start 1 and end MaxTime, never clocked
\* and still as it was made, on which the update is accepted, beside a
\* clocked shift on which it is refused
C29_Witness ==
  \E id \in DOMAIN shifts, other \in DOMAIN shifts :
    /\ shifts[id].schedule_id \in Schedules /\ ~Clocked(id)
    /\ shifts[id].start_time = 1 /\ shifts[id].end_time = MaxTime
    /\ update_shift_result(id, 0, 0) = "ok"
    /\ Clocked(other) /\ update_shift_result(other, 0, 0) = "400"

\* ------------------------------------------------- rejected-call claims
\* C26: clockIn or clockOut naming a shift id that is not in the store is
\* rejected (ValueError 'Invalid shift for staff'), whoever calls: this check
\* precedes the ownership check; the store is unchanged and no shift is
\* created.
C26_UnknownShiftRejected ==
  /\ [](\A id \in ShiftIdInputs \ DOMAIN shifts, s \in InputIds :
          /\ clock_in_result(s, id) = "ValueError"
          /\ clock_out_result(s, id) = "ValueError")
  /\ [][Quiet \/ \A id \in ShiftIdInputs \ DOMAIN shifts, s \in InputIds,
                     t \in 1..MaxNow :
          clock_in(s, id, t) \/ clock_out(s, id, t) => UNCHANGED vars]_vars

\* the store holds a clocked shift and lacks the id of a shift that was
\* deleted and an id never given out: a clock call of the owner of the one
\* on the others is refused
C26_Witness ==
  \E id \in DOMAIN shifts, gone \in 1..MaxShifts :
    /\ gone \notin DOMAIN shifts /\ gone < nextShiftId
    /\ shifts[id].clock_in # 0
    /\ clock_in_result(shifts[id].staff_id, gone) = "ValueError"
    /\ clock_out_result(shifts[id].staff_id, MaxShifts + 1) = "ValueError"

\* C27: createSwapRequest succeeds only when the referenced shift exists and
\* is owned by the requester at the time of the call; it then adds one
\* request with status pending and modifies no shift; otherwise (unknown
\* shift, shift owned by someone else, missing shift id or requested staff
\* id) it is rejected and no request is created.
C27_SwapRequestByOwner ==
  /\ [](\A s \in InputIds, id \in ShiftIdInputs \cup {0}, t \in InputIds \cup {0} :
          create_swap_request_result(s, id, t) = "ok" <=>
            id \in DOMAIN shifts /\ shifts[id].staff_id = s /\ t # 0)
  /\ [][Quiet \/ \A r \in DOMAIN requests' \ DOMAIN requests :
          /\ DOMAIN requests' = DOMAIN requests \cup {r}
          /\ \A q \in DOMAIN requests : requests'[q] = requests[q]
          /\ requests'[r].status = "pending"
          /\ requests'[r].shift_id \in DOMAIN shifts
          /\ shifts[requests'[r].shift_id].staff_id = requests'[r].requesting_staff_id
          /\ requests'[r].requested_staff_id # 0
          /\ shifts' = shifts]_vars

\* a pending request made by the owner of its shift, in a state where the
\* same request by the staff member it names, and one on a shift id that is
\* not in the store, are refused
C27_Witness ==
  \E r \in DOMAIN requests :
    /\ Pending(r)
    /\ requests[r].shift_id \in DOMAIN shifts
    /\ shifts[requests[r].shift_id].staff_id = requests[r].requesting_staff_id
    /\ requests[r].requested_staff_id # requests[r].requesting_staff_id
    /\ create_swap_request_result(requests[r].requested_staff_id,
         requests[r].shift_id, requests[r].requesting_staff_id) = "400"
    /\ create_swap_request_result(requests[r].requesting_staff_id,
         MaxShifts + 1, requests[r].requested_staff_id) = "400"

\* ----------------------------------------------------- aggregator claims
\* the ids of a list that belong to staff members, and the keys of a stats dict
StaffAmong(staff_ids) ==
  {staff_ids[i] : i \in {j \in 1..Len(staff_ids) : role(staff_ids[j]) = "staff"}}
KeySet(stats) == {stats[k].staff_id : k \in 1..Len(stats)}

\* C30: StatsAggregator returns an entry exactly for those requested ids that
\* resolve to an existing staff record: unknown ids are left out of the
\* result map without raising an error, and the call changes nothing in the
\* store.
C30_UnknownIdsOmitted ==
  /\ [](run.pc # "idle" =>
          LET el == run.eligible_staff_ids IN
          /\ KeySet(get_staff_stats(el)) = StaffAmong(el)
          /\ Len(get_staff_stats(el)) = Cardinality(StaffAmong(el))
          /\ KeySet(get_days_worked(el)) = StaffAmong(el)
          /\ Len(get_days_worked(el)) = Cardinality(StaffAmong(el))
          /\ KeySet(get_day_night_stats(el, day_shift_hours)) = StaffAmong(el)
          /\ Len(get_day_night_stats(el, day_shift_hours)) = Cardinality(StaffAmong(el)))
  /\ [][Quiet \/ (run.pc = "loop" /\ run'.stats # run.stats =>
          /\ KeySet(run'.stats) = StaffAmong(run.eligible_staff_ids)
          /\ \A id \in DOMAIN shifts : id \in DOMAIN shifts' /\ shifts'[id] = shifts[id]
          /\ run'.status = 500 => shifts' = shifts)]_vars

\* a run over a list that names two staff members and an id of no user was
\* handed stats of two entries, over a store that holds three shifts
C30_Witness ==
  /\ run.pc # "idle" /\ run.day >= 2
  /\ Len(run.eligible_staff_ids) = 3
  /\ \E i \in 1..3 : role(run.eligible_staff_ids[i]) = "none"
  /\ Len(run.stats) = 2
  /\ KeySet(run.stats) = StaffAmong(run.eligible_staff_ids)
  /\ Cardinality(DOMAIN shifts) = 3

\* ------------------------------------------------------- strategy claims
\* the candidates of the call, and what the stats dict holds for one of
\* them: its entries' days, and a field of its entry (0 when it has none)
Candidates ==
  {scoring.eligible_staff_ids[i] : i \in 1..Len(scoring.eligible_staff_ids)}
EntriesOf(sid) ==
  {i \in 1..Len(scoring.stats) : scoring.stats[i].staff_id = sid}
DaysOf(sid) == UNION {scoring.stats[i].days : i \in EntriesOf(sid)}
FieldOf(sid, f) ==
  IF EntriesOf(sid) = {} THEN 0
  ELSE scoring.stats[CHOOSE i \in EntriesOf(sid) : TRUE][f]

\* C22: EvenDistribution.score_staff returns, for every non-empty stats map,
\* a staff id whose pair (shiftsAssigned, hoursAssigned) is lexicographically
\* minimal among all entries of the map: no entry has fewer shifts, and no
\* entry with equally many shifts has fewer hours.
C22_EvenPicksLeast ==
  scoring.pc = "returned" /\ scoring.strategy_type = "even"
    /\ scoring.stats # << >> =>
    \E i \in 1..Len(scoring.stats) :
      /\ scoring.stats[i].staff_id = scoring.best
      /\ \A j \in 1..Len(scoring.stats) :
           /\ scoring.stats[j].shifts_assigned >= scoring.stats[i].shifts_assigned
           /\ scoring.stats[j].shifts_assigned = scoring.stats[i].shifts_assigned
                => scoring.stats[j].hours_assigned >= scoring.stats[i].hours_assigned

\* the last of three entries won: the first has as many shifts and more
\* hours, the second more shifts and no more hours
C22_Witness ==
  /\ scoring.pc = "returned" /\ scoring.strategy_type = "even"
  /\ Len(scoring.stats) = 3
  /\ scoring.best = scoring.stats[3].staff_id
  /\ scoring.stats[1].shifts_assigned = scoring.stats[3].shifts_assigned
  /\ scoring.stats[1].hours_assigned > scoring.stats[3].hours_assigned
  /\ scoring.stats[2].shifts_assigned > scoring.stats[3].shifts_assigned
  /\ scoring.stats[2].hours_assigned <= scoring.stats[3].hours_assigned

\* C23: MinDaysPerWeek.score_staff returns a candidate minimizing (0 if the
\* target date is among the candidate's worked dates else 1, number of
\* distinct worked dates), scoring a candidate absent from the stats map as
\* having an empty set and never raising for it; so a candidate who already
\* works the target date is chosen over every candidate who does not,
\* whatever the candidates' order.
C23_MinDaysPicksWorkedDay ==
  scoring.pc = "returned" /\ scoring.strategy_type = "min_days"
    /\ scoring.stats # << >> /\ scoring.eligible_staff_ids # << >> =>
    LET new_day(c) == IF scoring.target_day \in DaysOf(c) THEN 0 ELSE 1
        days(c) == Cardinality(DaysOf(c))
    IN  /\ scoring.best \in Candidates
        /\ \A c \in Candidates :
             \/ new_day(scoring.best) < new_day(c)
             \/ new_day(scoring.best) = new_day(c) /\ days(scoring.best) <= days(c)
        /\ (\E c \in Candidates : scoring.target_day \in DaysOf(c))
             => scoring.target_day \in DaysOf(scoring.best)

\* the second candidate won: it works the target date and another date, the
\* first candidate has no entry in the stats map
C23_Witness ==
  /\ scoring.pc = "returned" /\ scoring.strategy_type = "min_days"
  /\ Len(scoring.eligible_staff_ids) = 2
  /\ scoring.best = scoring.eligible_staff_ids[2]
  /\ EntriesOf(scoring.eligible_staff_ids[1]) = {}
  /\ scoring.target_day \in DaysOf(scoring.best)
  /\ Cardinality(DaysOf(scoring.best)) = 2

\* C24: BalancedDayNight.score_staff returns a candidate minimizing (balance,
\* totalHours), where balance = dayCount - nightCount when a day shift is
\* being assigned and nightCount - dayCount when a night shift is being
\* assigned, scoring a candidate absent from the stats map as (0, 0, 0) and
\* never raising for it.
C24_BalancedPicksLeast ==
  scoring.pc = "returned" /\ scoring.strategy_type = "balanced"
    /\ scoring.stats # << >> /\ scoring.eligible_staff_ids # << >> =>
    LET balance(c) ==
          IF scoring.is_day
            THEN FieldOf(c, "day_count") - FieldOf(c, "night_count")
            ELSE FieldOf(c, "night_count") - FieldOf(c, "day_count")
        load(c) == FieldOf(c, "total_hours")
    IN  /\ scoring.best \in Candidates
        /\ \A c \in Candidates :
             \/ balance(scoring.best) < balance(c)
             \/ balance(scoring.best) = balance(c) /\ load(scoring.best) <= load(c)

\* a night shift went to the second candidate, who has a day shift, no night
\* shift and eight hours, before the first, who has no entry in the stats map
C24_Witness ==
  /\ scoring.pc = "returned" /\ scoring.strategy_type = "balanced"
  /\ ~scoring.is_day
  /\ Len(scoring.eligible_staff_ids) = 2
  /\ scoring.best = scoring.eligible_staff_ids[2]
  /\ EntriesOf(scoring.eligible_staff_ids[1]) = {}
  /\ FieldOf(scoring.best, "day_count") = 1
  /\ FieldOf(scoring.best, "night_count") = 0
  /\ FieldOf(scoring.best, "total_hours") = 8

\* C25: for every non-empty stats map, each of the three strategies returns
\* exactly one staff id and that id is a member of the supplied eligible set;
\* with an empty stats map each of them raises the data-integrity error and
\* returns no id.
C25_WinnerIsEligible ==
  scoring.pc = "returned" =>
    /\ scoring.stats # << >> => scoring.best \in Candidates
    /\ scoring.stats = << >> => scoring.best = 0
\* ------------------------------------------------ ownership and frame claims
\* C33: for every shift, the staff member whose clockOut succeeds is the same
\* staff member whose clockIn succeeded: the shift's owner never changes
\* while a clock timestamp is set, in particular a swap approval never
\* reassigns a shift that is ClockedIn or ClockedOut.
C33_OwnerFixedWhileClocked ==
  [][Quiet \/ \A id \in DOMAIN shifts \cap DOMAIN shifts' :
       Clocked(id) => shifts'[id].staff_id = shifts[id].staff_id]_vars

\* C34: whenever a swap request is approved, the referenced shift is owned by
\* that request's requesting staff member immediately before the
\* reassignment: a pending request whose requester has meanwhile lost the
\* shift through another approved swap does not transfer the shift when it
\* is accepted.
C34_ApprovalMovesRequestersShift ==
  [][Quiet \/ \A r \in DOMAIN requests :
       /\ requests[r].status # "approved"
       /\ requests'[r].status = "approved"
       /\ requests[r].shift_id \in DOMAIN shifts
       /\ shifts' # shifts
       => shifts[requests[r].shift_id].staff_id
            = requests[r].requesting_staff_id]_vars

\* C36: a successful clockIn or clockOut changes only that one timestamp of
\* the named shift: the shift's owner, schedule, start, end and other clock
\* timestamp, every other shift, and every swap request are unchanged; a
\* rejected call changes nothing at all.
C36_ClockFrame ==
  /\ [][Quiet \/ \A id \in DOMAIN shifts \cap DOMAIN shifts' :
          /\ shifts'[id].clock_in # shifts[id].clock_in =>
               /\ shifts' = [shifts EXCEPT ![id].clock_in = shifts'[id].clock_in]
               /\ UNCHANGED <<nextShiftId, requests>>
          /\ shifts'[id].clock_out # shifts[id].clock_out =>
               /\ shifts' = [shifts EXCEPT ![id].clock_out = shifts'[id].clock_out]
               /\ UNCHANGED <<nextShiftId, requests>>]_vars
  /\ [][Quiet \/ \A s \in Actors, id \in ShiftIdInputs, t \in ClockReadings :
          /\ clock_in(s, id, t) =>
               /\ clock_in_result(s, id) = "ok"
               /\ shifts' = [shifts EXCEPT ![id].clock_in = t]
          /\ clock_out(s, id, t) =>
               /\ clock_out_result(s, id) = "ok"
               /\ shifts' = [shifts EXCEPT ![id].clock_out = t]]_vars

\* two shifts, the one clocked in and out by its owner at two readings of the
\* clock, the other untouched, and a swap request still pending
C36_Witness ==
  \E id \in DOMAIN shifts, other \in DOMAIN shifts, r \in DOMAIN requests :
    /\ id # other
    /\ shifts[id].clock_in # 0 /\ shifts[id].clock_out > shifts[id].clock_in
    /\ ~Clocked(other)
    /\ Pending(r)
\* --------------------------------------------------------- tie-break claims
\* C37: when several candidates share the minimal score, each strategy
\* returns the one that comes first in its iteration order (eligible-list
\* order for MinDaysPerWeek and BalancedDayNight, stats-map key order for
\* EvenDistribution), so two invocations with the same stats and the same
\* candidate order always return the same staff id.
C37_FirstOfTheLeast ==
  scoring.pc = "returned" /\ scoring.stats # << >> =>
    /\ scoring.strategy_type = "even" =>
         \E i \in 1..Len(scoring.stats) :
           /\ scoring.stats[i].staff_id = scoring.best
           /\ \A j \in 1..(i - 1) :
                \/ scoring.stats[j].shifts_assigned > scoring.stats[i].shifts_assigned
                \/ /\ scoring.stats[j].shifts_assigned = scoring.stats[i].shifts_assigned
                   /\ scoring.stats[j].hours_assigned > scoring.stats[i].hours_assigned
    /\ scoring.strategy_type = "min_days" /\ scoring.eligible_staff_ids # << >> =>
         LET new_day(c) == IF scoring.target_day \in DaysOf(c) THEN 0 ELSE 1
             days(c) == Cardinality(DaysOf(c))
         IN  \E i \in 1..Len(scoring.eligible_staff_ids) :
               /\ scoring.eligible_staff_ids[i] = scoring.best
               /\ \A j \in 1..(i - 1) :
                    LET c == scoring.eligible_staff_ids[j] IN
                    \/ new_day(c) > new_day(scoring.best)
                    \/ new_day(c) = new_day(scoring.best) /\ days(c) > days(scoring.best)
    /\ scoring.strategy_type = "balanced" /\ scoring.eligible_staff_ids # << >> =>
         LET balance(c) ==
               IF scoring.is_day
                 THEN FieldOf(c, "day_count") - FieldOf(c, "night_count")
                 ELSE FieldOf(c, "night_count") - FieldOf(c, "day_count")
             load(c) == FieldOf(c, "total_hours")
         IN  \E i \in 1..Len(scoring.eligible_staff_ids) :
               /\ scoring.eligible_staff_ids[i] = scoring.best
               /\ \A j \in 1..(i - 1) :
                    LET c == scoring.eligible_staff_ids[j] IN
                    \/ balance(c) > balance(scoring.best)
                    \/ balance(c) = balance(scoring.best) /\ load(c) > load(scoring.best)

\* three entries with the same shift count and hours, the first of them under
\* a larger id than the second: the first won
C37_Witness ==
  /\ scoring.pc = "returned" /\ scoring.strategy_type = "even"
  /\ Len(scoring.stats) = 3
  /\ scoring.stats[1].staff_id > scoring.stats[2].staff_id
  /\ \A i \in 2..3 :
       /\ scoring.stats[i].shifts_assigned = scoring.stats[1].shifts_assigned
       /\ scoring.stats[i].hours_assigned = scoring.stats[1].hours_assigned
  /\ scoring.best = scoring.stats[1].staff_id
\* C38: is_day_shift classifies a shift as day exactly when
\* dayStart <= start hour < dayEnd, with the default window (6, 18): a
\* shift starting at hour 6 is a day shift, one starting at hour 18 is a
\* night shift, and the date of the start does not matter.
C38_DayByStartHour ==
  scoring.pc = "returned" /\ scoring.strategy_type = "is_day_shift" =>
    \E d \in 0..MaxDate, h \in 0..23 :
      /\ scoring.start_time = 24 * d + h
      /\ scoring.is_day <=> (scoring.day_shift_hours[1] <= h
                               /\ h < scoring.day_shift_hours[2])
      /\ scoring.day_shift_hours = <<6, 18>> /\ h = 6 => scoring.is_day
      /\ scoring.day_shift_hours = <<6, 18>> /\ h = 18 => ~scoring.is_day

\* a shift that starts at 18:00 of day 1 came out as a night shift under the
\* default window
C38_Witness ==
  /\ scoring.pc = "returned" /\ scoring.strategy_type = "is_day_shift"
  /\ scoring.day_shift_hours = <<6, 18>>
  /\ scoring.start_time = 24 + 18
  /\ ~scoring.is_day
\* ------------------------------------------------------ concurrency claims
\* C31: during one auto-populate iteration no other writer adds a shift of
\* an eligible staff member between the reading of the stats and the
\* persisting of the new shift: when the shift is persisted, the stats the
\* pick was made from equal the store's aggregate for the eligible staff.
C31_StatsCurrentAtPersist ==
  [][Quiet \/ (run.pc = "scored" /\ run'.pc = "loop" => run.stats = run_stats)]_vars
\* C35: of two responses to the same pending swap request that run at once,
\* exactly one takes effect: no state has the request denied while its
\* shift was reassigned by an accepted response to that request.
C35_OneResponseTakesEffect ==
  \A r \in DOMAIN requests :
    LET done == {p \in Callers : /\ responses[p].pc = "returned"
                                 /\ responses[p].request_id = r
                                 /\ responses[p].result = "ok"}
    IN  /\ Cardinality(done) <= 1
        /\ ~ /\ requests[r].status = "denied"
             /\ \E p \in done : responses[p].action = "accept"
             /\ requests[r].shift_id \in DOMAIN shifts
             /\ shifts[requests[r].shift_id].staff_id = requests[r].requested_staff_id
\* ------------------------------------------------------ comparison claims
\* the (staff member, calendar date) pairs of a store's shifts whose staff
\* member is in the list: their number is the distinct days worked, summed
TotalDays(store, staff_ids) ==
  Cardinality({<<store[id].staff_id, date(store[id].start_time)>> :
     id \in {i \in DOMAIN store :
               \E k \in 1..Len(staff_ids) : staff_ids[k] = store[i].staff_id}})

\* C32: from the same initial store and with the same eligible set, day
\* count, hours and base date, the total number of distinct calendar days
\* worked, summed over the eligible staff, after a run with min_days is no
\* greater than after a run with even.
C32_MinDaysNoMoreDays ==
  pair.pc = "returned" /\ pair.status = 201 =>
    TotalDays(pair.min_days, pair.eligible_staff_ids)
      <= TotalDays(pair.even, pair.eligible_staff_ids)

\* two runs of two days or more from a store with shifts in it, after which
\* min_days has the eligible staff work fewer days in all than even
C32_Witness ==
  /\ pair.pc = "returned" /\ pair.status = 201
  /\ pair.num_days >= 2
  /\ Len(pair.even) > pair.num_days
  /\ TotalDays(pair.min_days, pair.eligible_staff_ids)
       < TotalDays(pair.even, pair.eligible_staff_ids)
====
